---------------------------- MODULE Spec2Model ----------------------------
(***************************************************************************)
(* Model of the pdf-extractor service: the /upload request handler         *)
(* (app.py), the extraction orchestrator extract_pdf (pdf.py) and the      *)
(* storage uploader (upload.py).  Remote services are modelled by the      *)
(* outcome of each call (a result, or an exception of some class).         *)
(* File contents are modelled by their length in bytes; paths by their     *)
(* sequence of components.                                                 *)
(***************************************************************************)
EXTENDS Integers, Sequences, FiniteSets, TLC

(***************************************************************************)
(* Program constants                                                       *)
(***************************************************************************)
CHUNK_SIZE == 8 * 1024 * 1024
LARGE_FILE_THRESHOLD == 150 * 1024 * 1024
ALLOWED_EXTENSIONS == {"pdf"}
PDF_MAGIC == <<"%", "P", "D", "F">>
TEXT_KEYS == <<"Text", "text", "content", "title", "altText">>

(***************************************************************************)
(* Bounds of the model                                                     *)
(***************************************************************************)
\* chunked files of up to FirstChunked + MaxExtraChunks whole chunks
MaxExtraChunks == 1
\* elements of the "elements" list of a structured-data tree
MaxElems == 2

None == "None"

Min(a, b) == IF a < b THEN a ELSE b

\* number of whole chunks of the smallest multiple of CHUNK_SIZE above the threshold
FirstChunked == (LARGE_FILE_THRESHOLD \div CHUNK_SIZE) + 1

\* the 500 MiB file of the chunked-upload scenario
ScenarioSize == 500 * 1024 * 1024

\* file sizes the model draws from: around 0, one chunk, the threshold,
\* whole multiples of the chunk size above it, and the 500 MiB scenario
BigSizes ==
    {LARGE_FILE_THRESHOLD + 1}
    \cup {k * CHUNK_SIZE + r : k \in FirstChunked .. (FirstChunked + MaxExtraChunks),
                               r \in {-1, 0, 1}}
    \cup {ScenarioSize}
SmallSizes == {0, 1, CHUNK_SIZE, CHUNK_SIZE + 1, LARGE_FILE_THRESHOLD - 1, LARGE_FILE_THRESHOLD}
FileSizes == SmallSizes \cup BigSizes

(***************************************************************************)
(* Inputs                                                                  *)
(***************************************************************************)
\* an environment value is "" (unset or empty: both are falsy) or "set"
EnvValues == {"", "set"}

\* a filename is the sequence of its parts between dots: "a.pdf" is <<"a","pdf">>
Filenames == { <<"">>, <<"report">>, <<"report", "pdf">>, <<"report", "PDF">>,
               <<"report", "txt">>, <<"report", "pdf", "exe">> }

\* the bytes of an uploaded stream
Streams == { <<>>, <<"%", "P", "D">>, PDF_MAGIC, <<"%", "P", "D", "F", "-">>,
             <<"P", "K", "3", "4", "x">>, <<"%", "p", "d", "f", "-">> }

\* str.lower() on the strings of the model
Lower(s) ==
    CASE s = "PDF" -> "pdf"
      [] s = "Pdf" -> "pdf"
      [] s = "TXT" -> "txt"
      [] OTHER -> s

\* f.read(n) of a file holding the bytes `content`, from its start
ReadHead(content, n) == SubSeq(content, 1, Min(n, Len(content)))

allowed_file(filename) ==
    /\ Len(filename) > 1
    /\ Lower(filename[Len(filename)]) \in ALLOWED_EXTENSIONS

\* faulty variant: only the first three bytes are compared
validate_pdf_prefix(content) == ReadHead(content, 3) = SubSeq(PDF_MAGIC, 1, 3)

validate_pdf(content) == ReadHead(content, 4) = PDF_MAGIC

(***************************************************************************)
(* Local and remote trees                                                  *)
(***************************************************************************)
Dir(path) == [path |-> path, isFile |-> FALSE, size |-> 0]
File(path, size) == [path |-> path, isFile |-> TRUE, size |-> size]

UUID == "uuid"
GENERATED == "generated"

\* entries of the result archive of the extraction job
SdEntry == [name |-> <<"structuredData.json">>, size |-> 1, valid |-> TRUE]
BadSdEntry == [name |-> <<"structuredData.json">>, size |-> 1, valid |-> FALSE]
FigEntry(s) == [name |-> <<"figures", "fileoutpart0.png">>, size |-> s, valid |-> TRUE]
TabEntry == [name |-> <<"tables", "fileoutpart1.csv">>, size |-> 1, valid |-> TRUE]
TabDirEntry == [name |-> <<"tables", "">>, size |-> 0, valid |-> TRUE]
OtherEntry == [name |-> <<"readme.txt">>, size |-> 1, valid |-> TRUE]

Archives ==
    { S \cup F \cup T :
        S \in {{}, {SdEntry}, {BadSdEntry}},
        F \in {{}} \cup {{FigEntry(s)} : s \in FileSizes},
        T \in {{}, {TabEntry}, {TabDirEntry, OtherEntry}} }

\* Path(name).name: the last component
BaseName(name) == name[Len(name)]

\* the extension test str.endswith((...)) on the last component
Ext(name) ==
    LET b == BaseName(name) IN
    CASE b = "fileoutpart0.png" -> "png"
      [] b = "fileoutpart1.csv" -> "csv"
      [] b = "structuredData.json" -> "json"
      [] b = "readme.txt" -> "txt"
      [] OTHER -> ""

\* "figure" in filename.lower(), "table" in filename.lower()
Mentions(name, word) ==
    \E i \in 1 .. Len(name) :
        \/ word = "figure" /\ Lower(name[i]) = "figures"
        \/ word = "table" /\ Lower(name[i]) = "tables"

\* the files one archive entry adds to the output directory (pdf.py 79-108)
EntryOutputs(e) ==
    IF e.name = <<"structuredData.json">>
    THEN {File(<<"structuredData.json">>, e.size), File(<<"text.txt">>, 1)}
    ELSE IF Mentions(e.name, "figure") /\ Ext(e.name) \in {"png", "jpg", "jpeg"}
    THEN {File(<<"figures", BaseName(e.name)>>, e.size)}
    ELSE IF Mentions(e.name, "table") /\ Ext(e.name) \in {"png", "csv", "jpg", "jpeg"}
    THEN IF BaseName(e.name) # ""
         THEN {File(<<"tables", BaseName(e.name)>>, e.size)}
         ELSE {}
    ELSE {}

\* json.loads fails on an unparsable structuredData.json
EntryRaises(e) == e.name = <<"structuredData.json">> /\ ~e.valid

(***************************************************************************)
(* State                                                                   *)
(***************************************************************************)
VARIABLES
    env,          \* process environment: CLIENT_ID, CLIENT_SECRET, DROPBOX_TOKEN
    entry,        \* which entry point runs: "http" (app.upload_file) or "single"
    pc,           \* position of the running call
    req,          \* the HTTP request: file part present, filename, stream
    savedFile,    \* uploads/<uuid>.<ext>: exists, content
    outDir,       \* generated/<uuid>: exists, entries, outcome of its rmtree
    tempZip,      \* the scratch archive file exists
    extractRes,   \* what extract_pdf returned or raised
    adobeCalls,   \* network calls made to the extraction service
    dropboxCalls, \* network calls made to the storage service
    up,           \* locals of upload_folder_to_dropbox / upload_single_file_to_dropbox
    lf,           \* locals of upload_large_file
    sessions,     \* per destination path, the upload-session calls made
    remote,       \* remote tree: committed files and folders
    link,         \* locals of create_shared_link
    uploadRes,    \* what the uploader returned or raised
    resp,         \* the JSON response of /upload
    txt           \* locals of the text extraction: data, text_lines, unique_text, text.txt

vars == <<env, entry, pc, req, savedFile, outDir, tempZip, extractRes, adobeCalls,
          dropboxCalls, up, lf, sessions, remote, link, uploadRes, resp, txt>>

extractVars == <<outDir, tempZip, extractRes, adobeCalls>>
uploadVars == <<dropboxCalls, up, lf, sessions, remote, link, uploadRes>>

NoReq == [hasFile |-> FALSE, filename |-> <<"">>, stream |-> <<>>]
NoResp == [status |-> "none"]
NoRes == [kind |-> "none"]
NoUp == [root |-> <<>>, todo |-> {}, uploaded_files |-> <<>>]
NoLf == [size |-> 0, tell |-> 0, offset |-> 0, path |-> <<>>, caller |-> "none",
         state |-> "none"]
NoUrl == [origin |-> "none", host |-> "", dl |-> ""]
NoLink == [tried |-> <<>>, listed |-> <<>>, result |-> NoUrl]

NoTxt == [data |-> [t |-> "null", v |-> <<>>], text_lines |-> <<>>,
          unique_text |-> <<>>, written |-> FALSE, content |-> <<>>]

Returned(v) == [kind |-> "returned", value |-> v]
Raised(cls, msg) == [kind |-> "raised", class |-> cls, msg |-> msg]

Init ==
    /\ env \in [CLIENT_ID : EnvValues, CLIENT_SECRET : EnvValues, DROPBOX_TOKEN : EnvValues]
    /\ entry \in {"http", "single"}
    /\ pc = "start"
    /\ req = NoReq
    /\ savedFile = [exists |-> FALSE, content |-> <<>>]
    /\ outDir = [exists |-> FALSE, entries |-> {}, rmtree |-> "none"]
    /\ tempZip = FALSE
    /\ extractRes = NoRes
    /\ adobeCalls = 0
    /\ dropboxCalls = 0
    /\ up = NoUp
    /\ lf = NoLf
    /\ sessions = << >>
    /\ remote = {}
    /\ link = NoLink
    /\ uploadRes = NoRes
    /\ resp = NoResp
    /\ txt = NoTxt

(***************************************************************************)
(* app.py: upload_file, up to the call of extract_pdf                      *)
(***************************************************************************)
ErrorResponse(msg) == [status |-> "error", message |-> msg]

UploadFileIntake ==
    /\ entry = "http"
    /\ pc = "start"
    /\ \E hasFile \in BOOLEAN, filename \in Filenames, stream \in Streams :
        /\ req' = [hasFile |-> hasFile, filename |-> filename, stream |-> stream]
        /\ IF ~hasFile
           THEN /\ resp' = ErrorResponse("No file selected")
                /\ pc' = "responded"
                /\ UNCHANGED savedFile
           ELSE IF filename = <<"">>
           THEN /\ resp' = ErrorResponse("No file selected")
                /\ pc' = "responded"
                /\ UNCHANGED savedFile
           ELSE IF allowed_file(filename)
           THEN /\ savedFile' = [exists |-> TRUE, content |-> stream]
                /\ IF validate_pdf(stream)
                   THEN /\ pc' = "extract_pdf"
                        /\ UNCHANGED resp
                   ELSE /\ resp' = ErrorResponse("Invalid PDF file format")
                        /\ pc' = "responded"
           ELSE /\ resp' = ErrorResponse("Invalid file type. Please upload a PDF file.")
                /\ pc' = "responded"
                /\ UNCHANGED savedFile
    /\ UNCHANGED <<txt, env, entry>>
    /\ UNCHANGED extractVars
    /\ UNCHANGED uploadVars

(***************************************************************************)
(* pdf.py: extract_pdf                                                     *)
(***************************************************************************)
OutputDirName == <<GENERATED, UUID>>

\* faulty variant: the output directory is left as it is
RmTreeSkipped(dir) == {dir}

\* shutil.rmtree(output_dir, ignore_errors=True): the directory is removed, or
\* the removal fails, which is ignored, and the directory stays with all or
\* none of its entries
RmTree(dir) ==
    {[exists |-> FALSE, entries |-> {}, rmtree |-> "removed"]}
    \cup {[exists |-> TRUE, entries |-> left, rmtree |-> "failed"] :
            left \in {dir.entries, {}}}

\* the output directory with the files of the archive entries `done` written
WithOutputs(dir, done) ==
    [dir EXCEPT !.entries = @ \cup UNION {EntryOutputs(e) : e \in done}]

\* faulty variant: the client secret is not checked
CredentialsMissingIdOnly(e) == e.CLIENT_ID = ""

\* line 33
CredentialsMissing(e) == e.CLIENT_ID = "" \/ e.CLIENT_SECRET = ""

\* lines 33-47: credential and input checks, creation of the output directories
ExtractCheck ==
    /\ pc = "extract_pdf"
    /\ IF CredentialsMissing(env)
       THEN /\ extractRes' = Raised("ValueError", "Missing CLIENT_ID / CLIENT_SECRET")
            /\ pc' = "extract_done"
            /\ UNCHANGED outDir
       ELSE IF ~savedFile.exists
       THEN /\ extractRes' = Raised("FileNotFoundError", "PDF file not found")
            /\ pc' = "extract_done"
            /\ UNCHANGED outDir
       ELSE /\ outDir' = [exists |-> TRUE,
                          entries |-> {Dir(<<"figures">>), Dir(<<"tables">>)},
                          rmtree |-> "none"]
            /\ pc' = "remote_job"
            /\ UNCHANGED extractRes
    /\ UNCHANGED <<txt, env, entry, req, savedFile, tempZip, adobeCalls, resp>>
    /\ UNCHANGED uploadVars

\* the remote calls of lines 56-70: upload, submit, get_job_result, get_content
AdobeCallCount == 4

\* lines 51-70: the remote job; the first failing call raises
RemoteJob ==
    /\ pc = "remote_job"
    /\ \/ /\ adobeCalls' = adobeCalls + AdobeCallCount
          /\ pc' = "write_archive"
          /\ UNCHANGED <<outDir, extractRes>>
       \/ \E failing \in 1 .. AdobeCallCount :
          /\ adobeCalls' = adobeCalls + failing
          /\ outDir' \in RmTree(outDir)
          /\ extractRes' = Raised("ServiceApiException", "remote job failed")
          /\ pc' = "extract_done"
    /\ UNCHANGED <<txt, env, entry, req, savedFile, tempZip, resp>>
    /\ UNCHANGED uploadVars

\* lines 73-75: the scratch archive is created (delete=False) and written
WriteArchive ==
    /\ pc = "write_archive"
    /\ tempZip' = TRUE
    /\ \/ /\ pc' = "process_archive"
          /\ UNCHANGED <<outDir, extractRes>>
       \/ /\ outDir' \in RmTree(outDir)
          /\ extractRes' = Raised("OSError", "archive write failed")
          /\ pc' = "extract_done"
    /\ UNCHANGED <<txt, env, entry, req, savedFile, adobeCalls, resp>>
    /\ UNCHANGED uploadVars

\* lines 77-108 and 115-120: the archive is opened and its entries written;
\* a failure comes after some of the entries were written
ProcessArchive ==
    /\ pc = "process_archive"
    /\ \/ \E archive \in Archives :
          IF \E e \in archive : EntryRaises(e)
          THEN \E done \in SUBSET {e \in archive : ~EntryRaises(e)} :
               /\ outDir' \in RmTree(WithOutputs(outDir, done))
               /\ extractRes' = Raised("JSONDecodeError", "unparsable structuredData.json")
               /\ pc' = "extract_done"
          ELSE /\ outDir' = WithOutputs(outDir, archive)
               /\ pc' = "unlink"
               /\ UNCHANGED extractRes
       \/ /\ outDir' \in RmTree(outDir)
          /\ extractRes' = Raised("BadZipFile", "malformed archive")
          /\ pc' = "extract_done"
       \/ \E archive \in Archives : \E done \in SUBSET archive :
          /\ \A e \in archive : ~EntryRaises(e)
          /\ done # archive
          /\ outDir' \in RmTree(WithOutputs(outDir, done))
          /\ extractRes' = Raised("OSError", "write error")
          /\ pc' = "extract_done"
    /\ UNCHANGED <<txt, env, entry, req, savedFile, tempZip, adobeCalls, resp>>
    /\ UNCHANGED uploadVars

\* lines 111-113: the scratch archive is deleted and the directory returned
UnlinkAndReturn ==
    /\ pc = "unlink"
    /\ tempZip' = FALSE
    /\ extractRes' = Returned(OutputDirName)
    /\ pc' = "extract_done"
    /\ UNCHANGED <<txt, env, entry, req, savedFile, outDir, adobeCalls, resp>>
    /\ UNCHANGED uploadVars

\* app.py 57, 82-86: extract_pdf raised: the request ends with an error;
\* it returned: upload_folder_to_dropbox is called with the folder
AfterExtract ==
    /\ pc = "extract_done"
    /\ IF extractRes.kind = "raised"
       THEN /\ resp' = [status |-> "error", message |-> "PDF processing failed", detail |-> extractRes.msg]
            /\ pc' = "responded"
       ELSE /\ pc' = "upload_folder"
            /\ UNCHANGED resp
    /\ UNCHANGED <<txt, env, entry, req, savedFile>>
    /\ UNCHANGED extractVars
    /\ UNCHANGED uploadVars


(***************************************************************************)
(* upload.py: the remote store                                             *)
(***************************************************************************)
\* the folders a path lies in: the store creates them with the file
Parents(path) == {Dir(SubSeq(path, 1, n)) : n \in 1 .. (Len(path) - 1)}

\* a file committed at `path` with overwrite mode
Commit(store, path, size) ==
    {e \in store : e.path # path} \cup {File(path, size)} \cup Parents(path)

\* the calls made so far in the upload session of `path`
SessionLog(path) == IF path \in DOMAIN sessions THEN sessions[path].calls ELSE <<>>

\* the session of the file of `size` bytes sent to `path`, with one more call
Logged(path, size, call) ==
    [p \in DOMAIN sessions \cup {path} |->
        IF p = path
        THEN [size |-> size, calls |-> Append(SessionLog(path), call)]
        ELSE sessions[p]]

RECURSIVE BytesOf(_)
\* the bytes sent by the calls of a session log
BytesOf(log) == IF log = <<>> THEN 0 ELSE log[1].nbytes + BytesOf(Tail(log))

\* f.read(CHUNK_SIZE) at position `tell` of a file of `size` bytes: the bytes read
ReadLen(size, tell) == Min(CHUNK_SIZE, size - tell)

\* faulty variant: every file is sent through an upload session
IsLargeFileAlways(file_size) == file_size >= 0

\* line 125: the choice of the transfer mode
IsLargeFile(file_size) == file_size > LARGE_FILE_THRESHOLD

\* faulty variant: a remainder of exactly one chunk is appended, not finished
IsLastChunkStrict(size, tell) == (size - tell) < CHUNK_SIZE

\* line 30: the remaining bytes fit one chunk
IsLastChunk(size, tell) == (size - tell) <= CHUNK_SIZE

\* faulty variant: the cursor is not moved after an append
CursorAfterAppendStale(tell) == tell - CHUNK_SIZE

\* line 34: the cursor after an append
CursorAfterAppend(tell) == tell

\* faulty variant: the file name alone is joined to the root
DropboxFilePathFlat(root, relative_path) == Append(root, relative_path[Len(relative_path)])

\* line 120: the destination of a file of the folder
DropboxFilePath(root, relative_path) == root \o relative_path

\* line 105: the destination root of a folder
DropboxDestRoot(folder_path) == <<"pdf_extractions", folder_path[Len(folder_path)]>>

\* the exception the caller of upload_large_file / upload_small_file raises (156, 203)
TransferFailed(caller) ==
    IF caller = "folder"
    THEN Raised("Exception", "Dropbox upload failed")
    ELSE Raised("Exception", "Upload failed")

(***************************************************************************)
(* upload.py: upload_folder_to_dropbox                                     *)
(***************************************************************************)
\* lines 84, 170: "if not token"
TokenMissing(e) == e.DROPBOX_TOKEN = ""

\* lines 83-101: token and folder checks, connection check
UploadFolderBegin ==
    /\ pc = "upload_folder"
    /\ IF TokenMissing(env)
       THEN /\ uploadRes' = Raised("ValueError", "Missing DROPBOX_TOKEN")
            /\ pc' = "upload_done"
            /\ UNCHANGED <<dropboxCalls, up>>
       ELSE IF ~outDir.exists
       THEN /\ uploadRes' = Raised("FileNotFoundError", "Folder not found")
            /\ pc' = "upload_done"
            /\ UNCHANGED <<dropboxCalls, up>>
       ELSE /\ dropboxCalls' = dropboxCalls + 1
            /\ \/ /\ pc' = "create_folder"
                  /\ up' = [up EXCEPT !.root = DropboxDestRoot(extractRes.value)]
                  /\ UNCHANGED uploadRes
               \/ /\ uploadRes' = Raised("ValueError", "Invalid Dropbox token")
                  /\ pc' = "upload_done"
                  /\ UNCHANGED up
               \/ /\ uploadRes' = Raised("Exception", "Failed to connect to Dropbox")
                  /\ pc' = "upload_done"
                  /\ UNCHANGED up
    /\ UNCHANGED <<txt, env, entry, req, savedFile, resp, lf, sessions, remote, link>>
    /\ UNCHANGED extractVars

\* lines 108-117: the root folder is created ("already exists" is ignored; any
\* other exception class leaves the function), the walk of the folder begins
UploadCreateFolder ==
    /\ pc = "create_folder"
    /\ dropboxCalls' = dropboxCalls + 1
    /\ \/ /\ remote' = remote \cup {Dir(up.root)} \cup Parents(up.root)
          /\ up' = [up EXCEPT !.todo = outDir.entries]
          /\ pc' = "walk"
          /\ UNCHANGED uploadRes
       \/ /\ up' = [up EXCEPT !.todo = outDir.entries]
          /\ pc' = "walk"
          /\ UNCHANGED <<remote, uploadRes>>
       \/ /\ uploadRes' = Raised("HttpError", "create folder failed")
          /\ pc' = "upload_done"
          /\ UNCHANGED <<remote, up>>
    /\ UNCHANGED <<txt, env, entry, req, savedFile, resp, lf, sessions, link>>
    /\ UNCHANGED extractVars

\* lines 117-118: rglob yields a directory, which is skipped
WalkSkipDir ==
    /\ pc = "walk"
    /\ \E e \in up.todo :
        /\ ~e.isFile
        /\ up' = [up EXCEPT !.todo = @ \ {e}]
    /\ UNCHANGED <<txt, env, entry, pc, req, savedFile, resp>>
    /\ UNCHANGED <<dropboxCalls, lf, sessions, remote, link, uploadRes>>
    /\ UNCHANGED extractVars

\* lines 15-18: one files_upload call with the whole content
SmallUpload(path, size, caller, onSuccess) ==
    /\ dropboxCalls' = dropboxCalls + 1
    /\ \/ /\ remote' = Commit(remote, path, size)
          /\ onSuccess
       \/ /\ uploadRes' = TransferFailed(caller)
          /\ pc' = "upload_done"
          /\ UNCHANGED <<remote, up>>

\* lines 117-130, file below the threshold: upload_small_file
WalkSmallFile ==
    /\ pc = "walk"
    /\ \E e \in up.todo :
        /\ e.isFile
        /\ ~IsLargeFile(e.size)
        /\ LET dest == DropboxFilePath(up.root, e.path) IN
           SmallUpload(dest, e.size, "folder",
                /\ up' = [up EXCEPT !.todo = @ \ {e},
                                    !.uploaded_files = Append(@, dest)]
                /\ UNCHANGED <<pc, uploadRes>>)
    /\ UNCHANGED <<txt, env, entry, req, savedFile, resp, lf, sessions, link>>
    /\ UNCHANGED extractVars

\* lines 117-126, file above the threshold: upload_large_file is entered
WalkLargeFile ==
    /\ pc = "walk"
    /\ \E e \in up.todo :
        /\ e.isFile
        /\ IsLargeFile(e.size)
        /\ up' = [up EXCEPT !.todo = @ \ {e}]
        /\ lf' = [size |-> e.size, tell |-> 0, offset |-> 0,
                  path |-> DropboxFilePath(up.root, e.path), caller |-> "folder",
                  state |-> "running"]
        /\ pc' = "session_start"
    /\ UNCHANGED <<txt, env, entry, req, savedFile, resp>>
    /\ UNCHANGED <<dropboxCalls, sessions, remote, link, uploadRes>>
    /\ UNCHANGED extractVars

(***************************************************************************)
(* upload.py: upload_large_file                                            *)
(***************************************************************************)
\* upload_large_file returned to its caller (lines 130, 197-201)
LargeFileReturns(tell) ==
    /\ lf' = [lf EXCEPT !.tell = tell, !.state = "returned"]
    /\ IF lf.caller = "folder"
       THEN /\ up' = [up EXCEPT !.uploaded_files = Append(@, lf.path)]
            /\ pc' = "walk"
            /\ UNCHANGED uploadRes
       ELSE /\ uploadRes' = Returned([status |-> "success", dropbox_path |-> lf.path,
                                      file_size |-> lf.size])
            /\ pc' = "upload_done"
            /\ UNCHANGED up

\* a session call raised: so does upload_large_file, and so does its caller
LargeFileRaises ==
    /\ lf' = [lf EXCEPT !.state = "raised"]
    /\ uploadRes' = TransferFailed(lf.caller)
    /\ pc' = "upload_done"
    /\ UNCHANGED up

\* lines 22-27: the session is opened with the first chunk
SessionStart ==
    /\ pc = "session_start"
    /\ dropboxCalls' = dropboxCalls + 1
    /\ \/ LET n == ReadLen(lf.size, lf.tell) IN
          /\ sessions' = Logged(lf.path, lf.size, [op |-> "start", nbytes |-> n, offset |-> 0])
          /\ lf' = [lf EXCEPT !.tell = @ + n, !.offset = lf.tell + n]
          /\ pc' = "session_loop"
          /\ UNCHANGED <<up, uploadRes>>
       \/ /\ LargeFileRaises
          /\ UNCHANGED sessions
    /\ UNCHANGED <<txt, env, entry, req, savedFile, resp, remote, link>>
    /\ UNCHANGED extractVars

\* lines 29-34, one turn of the loop: the last chunk is sent by session-finish
\* and the function returns; any other chunk by session-append
SessionLoop ==
    /\ pc = "session_loop"
    /\ IF lf.tell < lf.size
       THEN LET n == ReadLen(lf.size, lf.tell) IN
            /\ dropboxCalls' = dropboxCalls + 1
            /\ IF IsLastChunk(lf.size, lf.tell)
               THEN \/ /\ sessions' = Logged(lf.path, lf.size, [op |-> "finish", nbytes |-> n,
                                                       offset |-> lf.offset])
                       /\ remote' = Commit(remote, lf.path, lf.offset + n)
                       /\ LargeFileReturns(lf.tell + n)
                    \/ /\ LargeFileRaises
                       /\ UNCHANGED <<sessions, remote>>
               ELSE \/ /\ sessions' = Logged(lf.path, lf.size, [op |-> "append", nbytes |-> n,
                                                       offset |-> lf.offset])
                       /\ lf' = [lf EXCEPT !.tell = @ + n,
                                           !.offset = CursorAfterAppend(lf.tell + n)]
                       /\ UNCHANGED <<pc, remote, up, uploadRes>>
                    \/ /\ LargeFileRaises
                       /\ UNCHANGED <<sessions, remote>>
       ELSE /\ LargeFileReturns(lf.tell)
            /\ UNCHANGED <<dropboxCalls, sessions, remote>>
    /\ UNCHANGED <<txt, env, entry, req, savedFile, resp, link>>
    /\ UNCHANGED extractVars


(***************************************************************************)
(* upload.py: create_shared_link and the manifest                          *)
(***************************************************************************)
\* a link is the strategy it came from, its host and its dl query flag
Url(origin, host, dl) == [origin |-> origin, host |-> host, dl |-> dl]
UrlsOf(origin) == {Url(origin, "dropbox.com", "0"), Url(origin, "dropbox.com", "1"),
                   Url(origin, "db.tt", "")}

\* what sharing_list_shared_links may return
LinkLists == {<<>>} \cup {<<u>> : u \in UrlsOf("existing")}
             \cup {<<u, Url("existing2", "dropbox.com", "0")>> : u \in UrlsOf("existing")}

\* lines 136-143 and 149: the view variant of the shared link
ViewLink(shared_link) ==
    LET view_link ==
            IF shared_link # NoUrl /\ shared_link.host = "dropbox.com"
            THEN LET v == IF shared_link.dl = "0"
                          THEN [shared_link EXCEPT !.dl = "1"]
                          ELSE shared_link
                 IN  IF v.dl = "1" THEN [v EXCEPT !.dl = "0"] ELSE v
            ELSE NoUrl
    IN  IF view_link # NoUrl THEN view_link ELSE shared_link

\* lines 145-153
Manifest(root, uploaded_files, shared_link) ==
    [dropbox_folder_path |-> root,
     uploaded_files |-> uploaded_files,
     shared_link |-> shared_link,
     view_link |-> ViewLink(shared_link),
     total_files |-> Len(uploaded_files),
     success |-> TRUE]

Tried(strategy, outcome) == Append(link.tried, [strategy |-> strategy, outcome |-> outcome])

\* faulty variant: the last listed link is taken
LastLink(links) == links[Len(links)]

\* line 60: links.links[0]
FirstLink(links) == links[1]

\* create_shared_link returned `url`: lines 133-153 build and return the manifest
LinkReturns(url, tried, listed) ==
    /\ link' = [tried |-> tried, listed |-> listed, result |-> url]
    /\ uploadRes' = Returned(Manifest(up.root, up.uploaded_files, url))
    /\ pc' = "upload_done"

\* line 117: the walk is over; lines 38-55: creation with public/viewer settings.
\* ApiError is handled; any other exception class leaves create_shared_link
\* and is re-raised by line 156
LinkCreate ==
    /\ pc = "walk"
    /\ up.todo = {}
    /\ dropboxCalls' = dropboxCalls + 1
    /\ \/ \E url \in UrlsOf("created") : LinkReturns(url, Tried("create", "ok"), <<>>)
       \/ /\ link' = [link EXCEPT !.tried = Tried("create", "already_exists")]
          /\ pc' = "link_list"
          /\ UNCHANGED uploadRes
       \/ /\ link' = [link EXCEPT !.tried = Tried("create", "api_error")]
          /\ pc' = "link_plain"
          /\ UNCHANGED uploadRes
       \/ /\ link' = [link EXCEPT !.tried = Tried("create", "other_error")]
          /\ uploadRes' = Raised("Exception", "Dropbox upload failed")
          /\ pc' = "upload_done"
    /\ UNCHANGED <<txt, env, entry, req, savedFile, resp, up, lf, sessions, remote>>
    /\ UNCHANGED extractVars

\* lines 57-62: the existing links are listed; the first one is returned
LinkList ==
    /\ pc = "link_list"
    /\ dropboxCalls' = dropboxCalls + 1
    /\ \/ \E links \in LinkLists :
            IF links # <<>>
            THEN LinkReturns(FirstLink(links), Tried("list", "ok"), links)
            ELSE /\ link' = [link EXCEPT !.tried = Tried("list", "empty")]
                 /\ pc' = "link_plain"
                 /\ UNCHANGED uploadRes
       \/ /\ link' = [link EXCEPT !.tried = Tried("list", "error")]
          /\ pc' = "link_plain"
          /\ UNCHANGED uploadRes
    /\ UNCHANGED <<txt, env, entry, req, savedFile, resp, up, lf, sessions, remote>>
    /\ UNCHANGED extractVars

\* lines 65-71: the plain link request; None when it fails
LinkPlain ==
    /\ pc = "link_plain"
    /\ dropboxCalls' = dropboxCalls + 1
    /\ \/ \E url \in UrlsOf("plain") : LinkReturns(url, Tried("plain", "ok"), link.listed)
       \/ LinkReturns(NoUrl, Tried("plain", "error"), link.listed)
    /\ UNCHANGED <<txt, env, entry, req, savedFile, resp, up, lf, sessions, remote>>
    /\ UNCHANGED extractVars

(***************************************************************************)
(* app.py: upload_file, after upload_folder_to_dropbox                     *)
(***************************************************************************)
\* faulty variant: an upload failure is reported like an extraction failure
UploadFailedAsError(output_folder, dropbox_error) ==
    [status |-> "error", message |-> "PDF processing failed", detail |-> dropbox_error]

\* lines 75-80: the upload raised; extraction is still reported as a success
UploadFailedResponse(output_folder, dropbox_error) ==
    [status |-> "success",
     message |-> "PDF processed successfully, but Dropbox upload failed",
     output_folder |-> output_folder,
     dropbox_error |-> dropbox_error]

\* lines 60-80
Respond ==
    /\ entry = "http"
    /\ pc = "upload_done"
    /\ resp' = IF uploadRes.kind = "returned"
               THEN [status |-> "success",
                     message |-> "PDF processed and uploaded to Dropbox successfully!",
                     output_folder |-> extractRes.value,
                     dropbox_folder |-> uploadRes.value.dropbox_folder_path,
                     shared_link |-> uploadRes.value.shared_link,
                     view_link |-> uploadRes.value.view_link,
                     files_uploaded |-> uploadRes.value.total_files,
                     clickable_link |-> IF uploadRes.value.view_link # NoUrl
                                        THEN uploadRes.value.view_link
                                        ELSE uploadRes.value.shared_link]
               ELSE UploadFailedResponse(extractRes.value, uploadRes.msg)
    /\ pc' = "responded"
    /\ UNCHANGED <<txt, env, entry, req, savedFile>>
    /\ UNCHANGED extractVars
    /\ UNCHANGED uploadVars

(***************************************************************************)
(* upload.py: upload_single_file_to_dropbox                                *)
(***************************************************************************)
SinglePaths == {<<"big.bin">>}
SingleDests == {<<>>, <<"backup", "big.bin">>}

\* lines 169-195: checks, connection, choice of the transfer mode;
\* a file at or below the threshold is sent by upload_small_file
SingleBegin ==
    /\ entry = "single"
    /\ pc = "start"
    /\ \E kind \in {"file", "dir", "missing"}, name \in SinglePaths,
          size \in FileSizes, dropbox_path \in SingleDests :
        LET dest == IF dropbox_path = <<>>
                    THEN <<"pdf_extractions", name[Len(name)]>>
                    ELSE dropbox_path
        IN
        IF TokenMissing(env)
        THEN /\ uploadRes' = Raised("ValueError", "Missing DROPBOX_TOKEN")
             /\ pc' = "upload_done"
             /\ UNCHANGED <<dropboxCalls, lf, remote, up>>
        ELSE IF kind = "missing"
        THEN /\ uploadRes' = Raised("FileNotFoundError", "File not found")
             /\ pc' = "upload_done"
             /\ UNCHANGED <<dropboxCalls, lf, remote, up>>
        ELSE IF kind = "dir"
        THEN /\ uploadRes' = Raised("ValueError", "Path is not a file")
             /\ pc' = "upload_done"
             /\ UNCHANGED <<dropboxCalls, lf, remote, up>>
        ELSE \/ /\ dropboxCalls' = dropboxCalls + 1
                /\ IsLargeFile(size)
                /\ lf' = [size |-> size, tell |-> 0, offset |-> 0,
                          path |-> dest, caller |-> "single", state |-> "running"]
                /\ pc' = "session_start"
                /\ UNCHANGED <<uploadRes, remote, up>>
             \/ /\ ~IsLargeFile(size)
                /\ pc' = "single_small"
                /\ dropboxCalls' = dropboxCalls + 1
                /\ up' = [up EXCEPT !.todo = {File(dest, size)}]
                /\ UNCHANGED <<uploadRes, remote, lf>>
             \/ /\ dropboxCalls' = dropboxCalls + 1
                /\ uploadRes' = Raised("ValueError", "Invalid Dropbox token")
                /\ pc' = "upload_done"
                /\ UNCHANGED <<lf, remote, up>>
             \/ /\ dropboxCalls' = dropboxCalls + 1
                /\ uploadRes' = Raised("HttpError", "connection failed")
                /\ pc' = "upload_done"
                /\ UNCHANGED <<lf, remote, up>>
    /\ UNCHANGED <<txt, env, entry, req, savedFile, resp, sessions, link>>
    /\ UNCHANGED extractVars

\* lines 194-203: upload_small_file and the result
SingleSmall ==
    /\ pc = "single_small"
    /\ \E f \in up.todo :
        SmallUpload(f.path, f.size, "single",
            /\ uploadRes' = Returned([status |-> "success", dropbox_path |-> f.path,
                                      file_size |-> f.size])
            /\ pc' = "upload_done"
            /\ UNCHANGED up)
    /\ UNCHANGED <<txt, env, entry, req, savedFile, resp, lf, sessions, link>>
    /\ UNCHANGED extractVars

(***************************************************************************)
(* pdf.py 80-99: the transcript of structuredData.json                     *)
(***************************************************************************)
\* a JSON value is [t, v]: a string (its characters), a number, a list (its
\* items) or an object (its key/value pairs in document order)
Str(chars) == [t |-> "str", v |-> chars]
Num == [t |-> "num", v |-> <<>>]
List(items) == [t |-> "list", v |-> items]
Obj(pairs) == [t |-> "dict", v |-> pairs]
KV(k, v) == [k |-> k, v |-> v]
Absent == [t |-> "absent", v |-> <<>>]

Whitespace == {" ", "\n", "\t"}

TextStrings == { <<>>, <<" ">>, <<"a">>, <<"b">>, <<" ", "a">>, <<"a", "\n", "b">> }

Elems ==
    {Obj(<<KV(k, Str(s))>>) : k \in {"Text", "Path"}, s \in TextStrings}
    \cup {Obj(<<KV("title", Str(<<"a">>)), KV("Text", Str(<<"b">>))>>),
          Obj(<<KV("title", Str(<<"b">>)), KV("Text", Str(<<"a">>))>>),
          Obj(<<KV("content", Obj(<<KV("text", Str(<<" ", "a">>))>>))>>),
          Obj(<<KV("Text", List(<<Str(<<"a">>)>>))>>),
          Obj(<<KV("Kids", List(<<Obj(<<KV("altText", Str(<<"b">>))>>)>>)),
                KV("Text", Str(<<"a">>))>>),
          Obj(<<KV("Text", Num)>>)}

RECURSIVE ElemLists(_)
\* the lists of at most n elements
ElemLists(n) ==
    IF n = 0 THEN {<<>>}
    ELSE ElemLists(n - 1)
         \cup {Append(l, e) : l \in {x \in ElemLists(n - 1) : Len(x) = n - 1}, e \in Elems}

Trees ==
    {Obj(<<KV("elements", List(l))>>) : l \in ElemLists(MaxElems)}
    \cup {Obj(<<KV("elements", List(l)), KV("title", Str(s))>>) :
            l \in ElemLists(MaxElems), s \in {<<"a">>, <<"b">>, <<" ">>}}

RECURSIVE LStrip(_)
LStrip(s) == IF s # <<>> /\ Head(s) \in Whitespace THEN LStrip(Tail(s)) ELSE s

RECURSIVE RStrip(_)
RStrip(s) ==
    IF s # <<>> /\ s[Len(s)] \in Whitespace THEN RStrip(SubSeq(s, 1, Len(s) - 1)) ELSE s

\* faulty variant: the value is taken as it is
StripNothing(s) == s

\* str.strip()
Strip(s) == RStrip(LStrip(s))

\* node.get(k)
Get(node, k) ==
    LET idx == {i \in 1 .. Len(node.v) : node.v[i].k = k} IN
    IF idx = {} THEN Absent ELSE node.v[CHOOSE i \in idx : TRUE].v

RECURSIVE OwnLines(_, _)
\* lines 87-90, from the key of index ki on
OwnLines(node, ki) ==
    IF ki > Len(TEXT_KEYS) THEN <<>>
    ELSE LET v == Get(node, TEXT_KEYS[ki]) IN
         (IF v.t = "str" /\ Strip(v.v) # <<>> THEN <<Strip(v.v)>> ELSE <<>>)
         \o OwnLines(node, ki + 1)

RECURSIVE extract_text(_), ExtractEach(_)
\* lines 85-95: the strings appended to text_lines by extract_text(node)
extract_text(node) ==
    IF node.t = "dict"
    THEN OwnLines(node, 1) \o ExtractEach([i \in 1 .. Len(node.v) |-> node.v[i].v])
    ELSE IF node.t = "list"
    THEN ExtractEach(node.v)
    ELSE <<>>

ExtractEach(nodes) ==
    IF nodes = <<>> THEN <<>>
    ELSE extract_text(Head(nodes)) \o ExtractEach(Tail(nodes))

\* faulty variant: nothing is removed
DedupNone(lines) == lines

RECURSIVE Dedup(_)
\* list(dict.fromkeys(lines)): the first occurrence of each line is kept
Dedup(lines) ==
    IF lines = <<>> THEN <<>>
    ELSE LET init == Dedup(SubSeq(lines, 1, Len(lines) - 1))
             last == lines[Len(lines)]
         IN  IF \E i \in 1 .. Len(init) : init[i] = last THEN init ELSE Append(init, last)

RECURSIVE Join(_)
\* "\n".join(lines)
Join(lines) ==
    IF lines = <<>> THEN <<>>
    ELSE IF Len(lines) = 1 THEN lines[1]
    ELSE lines[1] \o <<"\n">> \o Join(Tail(lines))

TextInit ==
    /\ env = [CLIENT_ID |-> "set", CLIENT_SECRET |-> "set", DROPBOX_TOKEN |-> "set"]
    /\ entry = "text"
    /\ pc = "json_loaded"
    /\ req = NoReq
    /\ savedFile = [exists |-> FALSE, content |-> <<>>]
    /\ outDir = [exists |-> TRUE, entries |-> {Dir(<<"figures">>), Dir(<<"tables">>)},
                 rmtree |-> "none"]
    /\ tempZip = TRUE
    /\ extractRes = NoRes
    /\ adobeCalls = AdobeCallCount
    /\ dropboxCalls = 0
    /\ up = NoUp
    /\ lf = NoLf
    /\ sessions = << >>
    /\ remote = {}
    /\ link = NoLink
    /\ uploadRes = NoRes
    /\ resp = NoResp
    /\ \E data \in Trees : txt = [NoTxt EXCEPT !.data = data]

\* lines 84-97: extract_text(data) fills text_lines
WalkTree ==
    /\ pc = "json_loaded"
    /\ txt' = [txt EXCEPT !.text_lines = extract_text(txt.data)]
    /\ pc' = "walked"
    /\ UNCHANGED <<env, entry, req, savedFile, resp>>
    /\ UNCHANGED extractVars
    /\ UNCHANGED uploadVars

\* lines 98-99: the lines are de-duplicated and text.txt is written
WriteTranscript ==
    /\ pc = "walked"
    /\ LET unique_text == Dedup(txt.text_lines) IN
       txt' = [txt EXCEPT !.unique_text = unique_text,
                          !.written = TRUE,
                          !.content = Join(unique_text)]
    /\ outDir' = [outDir EXCEPT !.entries = @ \cup {File(<<"text.txt">>, Len(txt'.content))}]
    /\ pc' = "text_written"
    /\ UNCHANGED <<env, entry, req, savedFile, resp, tempZip, extractRes, adobeCalls>>
    /\ UNCHANGED uploadVars

TextNext ==
    \/ WalkTree
    \/ WriteTranscript

SpecText == TextInit /\ [][TextNext]_vars

Next ==
    \/ UploadFileIntake
    \/ ExtractCheck
    \/ RemoteJob
    \/ WriteArchive
    \/ ProcessArchive
    \/ UnlinkAndReturn
    \/ AfterExtract
    \/ UploadFolderBegin
    \/ UploadCreateFolder
    \/ WalkSkipDir
    \/ WalkSmallFile
    \/ WalkLargeFile
    \/ SessionStart
    \/ SessionLoop
    \/ LinkCreate
    \/ LinkList
    \/ LinkPlain
    \/ Respond
    \/ SingleBegin
    \/ SingleSmall

Spec == Init /\ [][Next]_vars


(***************************************************************************)
(* Properties                                                              *)
(***************************************************************************)
Count(log, op) == Cardinality({i \in 1 .. Len(log) : log[i].op = op})

CeilDiv(a, b) == (a + b - 1) \div b

\* the stream starts with the four bytes %PDF
HasPdfMagic(stream) ==
    /\ Len(stream) >= 4
    /\ stream[1] = "%" /\ stream[2] = "P" /\ stream[3] = "D" /\ stream[4] = "F"

\* the destination root of the output folder of a request
RequestRoot == <<"pdf_extractions", UUID>>

\* C1: when extract_pdf returned an output folder and upload_folder_to_dropbox
\* raised, the response has status success, carries the output folder and a
\* dropbox_error field.
C1_PartialSuccess ==
    (entry = "http" /\ pc = "responded"
        /\ extractRes.kind = "returned" /\ uploadRes.kind = "raised")
    => /\ resp.status = "success"
       /\ "output_folder" \in DOMAIN resp
       /\ resp.output_folder = <<GENERATED, UUID>>
       /\ "dropbox_error" \in DOMAIN resp
       /\ resp.dropbox_error = uploadRes.msg

C1_Witness ==
    /\ entry = "http" /\ pc = "responded"
    /\ extractRes.kind = "returned" /\ uploadRes.kind = "raised"
    /\ uploadRes.msg = "Dropbox upload failed"
    /\ resp.status = "success"

\* C2 as stated: a completed chunked transfer of S bytes made ceil(S/C) - 1
\* session-append calls and one session-finish call.
C2_AppendsCeilMinusOne ==
    lf.state = "returned"
    => /\ Count(SessionLog(lf.path), "append") = CeilDiv(lf.size, CHUNK_SIZE) - 1
       /\ Count(SessionLog(lf.path), "finish") = 1

\* C2 amended: a completed chunked transfer of S bytes made one session-start
\* call with the first chunk, ceil(S/C) - 2 session-append calls and one
\* session-finish call.
C2_AppendsCeilMinusTwo ==
    lf.state = "returned"
    => /\ Count(SessionLog(lf.path), "start") = 1
       /\ Count(SessionLog(lf.path), "append") = CeilDiv(lf.size, CHUNK_SIZE) - 2
       /\ Count(SessionLog(lf.path), "finish") = 1

C2_Witness ==
    /\ lf.state = "returned"
    /\ lf.size = ScenarioSize
    /\ Count(SessionLog(lf.path), "append") = 61

\* C3: every file handed to upload_large_file by the two uploaders is committed
\* exactly once when the call returns: one session-finish call, no session call
\* after it, and the bytes of the start, append and finish calls are the S bytes
\* of the file, the final offset being S.
C3_CommittedOnce ==
    /\ \A p \in DOMAIN sessions :
        LET log == sessions[p].calls
            S == sessions[p].size
        IN  /\ Count(log, "finish") <= 1
            /\ \A i \in 1 .. Len(log) : log[i].op = "finish" => i = Len(log)
            /\ Count(log, "finish") = 1
               => /\ BytesOf(log) = S
                  /\ log[Len(log)].offset + log[Len(log)].nbytes = S
                  /\ File(p, S) \in remote
    /\ lf.state = "returned"
       => /\ lf.path \in DOMAIN sessions
          /\ Count(SessionLog(lf.path), "finish") = 1
          /\ lf.tell = lf.size

C3_Witness ==
    /\ lf.state = "returned"
    /\ lf.caller = "single"
    /\ lf.size = LARGE_FILE_THRESHOLD + 1
    /\ Count(SessionLog(lf.path), "finish") = 1

\* C4: a file goes through an upload session exactly when it is larger than
\* 150 MiB; at every append and finish call the cursor offset is the number of
\* bytes sent by the earlier calls; each append sends one 8 MiB chunk and moves
\* the offset by it; a remainder of at most one chunk is sent by finish.
C4_ChunkedProtocol ==
    /\ \A p \in DOMAIN sessions : sessions[p].size > 150 * 1024 * 1024
    /\ \A e \in remote :
        (e.isFile /\ e.path \notin DOMAIN sessions) => e.size <= 150 * 1024 * 1024
    /\ \A p \in DOMAIN sessions :
        LET log == sessions[p].calls
            S == sessions[p].size
        IN  \A i \in 1 .. Len(log) :
            /\ (log[i].op = "start") <=> (i = 1)
            /\ log[i].offset = BytesOf(SubSeq(log, 1, i - 1))
            /\ log[i].op = "append"
               => /\ log[i].nbytes = 8 * 1024 * 1024
                  /\ S - log[i].offset > 8 * 1024 * 1024
                  /\ i < Len(log) => log[i + 1].offset = log[i].offset + 8 * 1024 * 1024
            /\ log[i].op = "finish"
               => /\ S - log[i].offset <= 8 * 1024 * 1024
                  /\ log[i].nbytes = S - log[i].offset
    /\ (pc = "session_loop") => lf.offset = BytesOf(SessionLog(lf.path))

C4_Witness ==
    \E p \in DOMAIN sessions :
        /\ sessions[p].size = ScenarioSize
        /\ Len(sessions[p].calls) = 63
        /\ sessions[p].calls[62].op = "append"
        /\ sessions[p].calls[63].op = "finish"
        /\ sessions[p].calls[63].nbytes = 4 * 1024 * 1024

\* C5 as stated: after upload_folder_to_dropbox returned a manifest, every
\* relative path of the local output directory, file or directory, is present
\* under the remote destination root.
C5_EveryPathMirrored ==
    (entry = "http" /\ uploadRes.kind = "returned")
    => \A e \in outDir.entries :
        \E r \in remote : r.path = RequestRoot \o e.path /\ r.isFile = e.isFile

\* C5 amended: after upload_folder_to_dropbox returned a manifest, every regular
\* file of the local output directory is present, with its relative path and
\* size, under the remote destination root and is listed in the manifest; a
\* directory is present remotely when a file lies in it.
C5_EveryFileMirrored ==
    (entry = "http" /\ uploadRes.kind = "returned")
    => /\ \A e \in outDir.entries :
            e.isFile
            => /\ File(RequestRoot \o e.path, e.size) \in remote
               /\ \E i \in 1 .. Len(uploadRes.value.uploaded_files) :
                    uploadRes.value.uploaded_files[i] = RequestRoot \o e.path
               /\ \A n \in 1 .. (Len(e.path) - 1) :
                    Dir(RequestRoot \o SubSeq(e.path, 1, n)) \in remote
       /\ uploadRes.value.total_files
            = Cardinality({e \in outDir.entries : e.isFile})
       /\ uploadRes.value.dropbox_folder_path = RequestRoot

C5_Witness ==
    /\ entry = "http" /\ uploadRes.kind = "returned"
    /\ File(<<"figures", "fileoutpart0.png">>, ScenarioSize) \in outDir.entries
    /\ File(<<"tables", "fileoutpart1.csv">>, 1) \in outDir.entries
    /\ File(<<"text.txt">>, 1) \in outDir.entries

\* C6: once every file transfer succeeded, upload_folder_to_dropbox returns a
\* manifest whatever the link calls do; it never raises.
C6_LinkFailureNeverRaises ==
    (entry = "http" /\ pc \in {"upload_done", "responded"} /\ link.tried # <<>>)
    => uploadRes.kind = "returned"

\* C7: create_shared_link tries creation with settings first; the listing only
\* after creation reported that a link exists, and then returns the first
\* listed link, which is the manifest's shared link unchanged; the plain
\* request only after those failed; and the link is empty only when the plain
\* request failed too.
C7_LinkStrategies ==
    LET t == link.tried
        n == Len(link.tried)
    IN  /\ \A i \in 1 .. n :
            /\ (t[i].strategy = "create") <=> (i = 1)
            /\ t[i].strategy = "list"
               => (i = 2 /\ t[1].outcome = "already_exists")
            /\ t[i].strategy = "plain"
               => /\ i = n
                  /\ t[1].outcome \in {"already_exists", "api_error"}
                  /\ t[1].outcome = "already_exists"
                     => (n = 3 /\ t[2].outcome \in {"empty", "error"})
            /\ t[i].outcome = "ok" => i = n
        /\ (entry = "http" /\ uploadRes.kind = "returned")
           => LET shared == uploadRes.value.shared_link IN
              /\ n > 0
              /\ shared = link.result
              /\ (t[n].strategy = "create" /\ t[n].outcome = "ok")
                 => shared.origin = "created"
              /\ (t[n].strategy = "list" /\ t[n].outcome = "ok")
                 => (link.listed # <<>> /\ shared = link.listed[1])
              /\ (t[n].strategy = "plain" /\ t[n].outcome = "ok")
                 => shared.origin = "plain"
              /\ (shared = NoUrl)
                 <=> (t[n].strategy = "plain" /\ t[n].outcome = "error")

C7_Witness ==
    /\ entry = "http" /\ uploadRes.kind = "returned"
    /\ Len(link.tried) = 2
    /\ link.tried[1].outcome = "already_exists"
    /\ Len(link.listed) = 2
    /\ uploadRes.value.shared_link = Url("existing", "dropbox.com", "1")

C10_MagicGate ==
    (entry = "http" /\ pc # "start")
    => /\ (pc # "responded" \/ extractRes.kind # "none")
          => /\ Len(req.filename) > 1
             /\ req.filename[Len(req.filename)] \in {"pdf", "PDF", "Pdf"}
             /\ HasPdfMagic(req.stream)
       /\ ~HasPdfMagic(req.stream)
          => /\ pc = "responded"
             /\ resp.status = "error"
             /\ extractRes.kind = "none"
             /\ uploadRes.kind = "none"
             /\ ~outDir.exists
             /\ adobeCalls = 0
             /\ dropboxCalls = 0

C10_Witness ==
    /\ entry = "http" /\ pc = "responded"
    /\ req.hasFile
    /\ req.filename = <<"report", "PDF">>
    /\ req.stream = <<"%", "P", "D">>
    /\ resp.status = "error"


\* the first index of x in seq
FirstIdx(seq, x) ==
    CHOOSE i \in 1 .. Len(seq) : seq[i] = x /\ \A k \in 1 .. (i - 1) : seq[k] # x

\* s without its leading and trailing whitespace
Trimmed(s) ==
    LET idx == {i \in 1 .. Len(s) : s[i] \notin {" ", "\n", "\t"}} IN
    IF idx = {} THEN <<>>
    ELSE SubSeq(s, CHOOSE i \in idx : \A k \in idx : i <= k,
                   CHOOSE i \in idx : \A k \in idx : i >= k)

RECURSIVE SplitLines(_)
SplitLines(content) ==
    LET nl == {i \in 1 .. Len(content) : content[i] = "\n"} IN
    IF nl = {} THEN <<content>>
    ELSE LET i == CHOOSE x \in nl : \A y \in nl : x <= y IN
         <<SubSeq(content, 1, i - 1)>> \o SplitLines(SubSeq(content, i + 1, Len(content)))

\* the lines of a text file
FileLines(content) == IF content = <<>> THEN <<>> ELSE SplitLines(content)

RECURSIVE RawWalk(_), RawWalkEach(_), RawOwn(_, _)
\* the string values under the recognized keys, as they stand, in the order of
\* the walk: at an object its own five keys first, then its values in order
RawWalk(node) ==
    IF node.t = "dict"
    THEN RawOwn(node, <<"Text", "text", "content", "title", "altText">>)
         \o RawWalkEach([i \in 1 .. Len(node.v) |-> node.v[i].v])
    ELSE IF node.t = "list" THEN RawWalkEach(node.v)
    ELSE <<>>

RawWalkEach(nodes) ==
    IF nodes = <<>> THEN <<>> ELSE RawWalk(Head(nodes)) \o RawWalkEach(Tail(nodes))

RawOwn(node, keys) ==
    IF keys = <<>> THEN <<>>
    ELSE (IF \E i \in 1 .. Len(node.v) : node.v[i].k = Head(keys) /\ node.v[i].v.t = "str"
          THEN <<(node.v[CHOOSE i \in 1 .. Len(node.v) : node.v[i].k = Head(keys)]).v.v>>
          ELSE <<>>)
         \o RawOwn(node, Tail(keys))

RECURSIVE OffsetOf(_, _)
\* where entry i starts in the newline-join of the entries
OffsetOf(entries, i) ==
    IF i = 1 THEN 0 ELSE OffsetOf(entries, i - 1) + Len(entries[i - 1]) + 1

ArchiveWasWritten ==
    \/ extractRes.kind = "returned"
    \/ /\ extractRes.kind = "raised"
       /\ extractRes.msg \in {"malformed archive", "unparsable structuredData.json",
                              "write error"}

\* C11: once the scratch archive has been written, it is deleted before
\* extract_pdf returns or raises, on the success path and on every failure
\* path of the archive processing.
C11_ScratchArchiveDeleted ==
    (entry = "http" /\ ArchiveWasWritten) => ~tempZip


\* extract_pdf raised after it had created the output directory
RaisedAfterMkdir ==
    /\ extractRes.kind = "raised"
    /\ extractRes.msg \in {"remote job failed", "archive write failed", "malformed archive",
                           "unparsable structuredData.json", "write error"}

\* C12 as stated: when a step of extract_pdf after the creation of the output
\* directory raised, the directory no longer exists, the request ends with
\* status error carrying that failure and no storage upload is attempted; an
\* output directory that exists after extract_pdf finished was returned by it.
C12_FailureRemovesOutputDir ==
    entry = "http"
    => /\ RaisedAfterMkdir
          => /\ ~outDir.exists
             /\ uploadRes.kind = "none"
             /\ dropboxCalls = 0
             /\ pc \in {"extract_done", "responded"}
             /\ pc = "responded"
                => (resp.status = "error" /\ resp.detail = extractRes.msg)
       /\ (extractRes.kind # "none" /\ outDir.exists) => extractRes.kind = "returned"

\* C12 amended: when a step of extract_pdf after the creation of the output
\* directory raised, the removal of the directory has been attempted (it no
\* longer exists unless the removal itself failed), the request ends with
\* status error carrying that failure and no storage upload is attempted; an
\* output directory that exists after extract_pdf finished was returned by it
\* or is one whose removal failed.
C12_FailureAttemptsRemoval ==
    entry = "http"
    => /\ RaisedAfterMkdir
          => /\ outDir.rmtree \in {"removed", "failed"}
             /\ outDir.exists => outDir.rmtree = "failed"
             /\ uploadRes.kind = "none"
             /\ dropboxCalls = 0
             /\ pc \in {"extract_done", "responded"}
             /\ pc = "responded"
                => (resp.status = "error" /\ resp.detail = extractRes.msg)
       /\ (extractRes.kind # "none" /\ outDir.exists)
          => (extractRes.kind = "returned" \/ outDir.rmtree = "failed")
       /\ extractRes.kind = "returned" => (outDir.exists /\ outDir.rmtree = "none")

C12_Witness ==
    /\ entry = "http" /\ pc = "responded"
    /\ extractRes.kind = "raised" /\ extractRes.msg = "write error"
    /\ outDir.rmtree = "removed" /\ ~outDir.exists
    /\ resp.status = "error"


=============================================================================
